---- MODULE Spec2Model ----
(***************************************************************************)
(* StatsMonit: the statistics aggregator of lib/stats.js.                  *)
(*                                                                         *)
(* The module state of the aggregator (the three history arrays, the rate  *)
(* estimator's last counters and ring buffer, the cache table) is modelled *)
(* together with every in-flight invocation of getStats.  An invocation    *)
(* runs in a context: getStats launches its twelve calls synchronously     *)
(* and each call is resumed by its own provider completion.  The steps of  *)
(* one event-loop turn (the continuation of the adapter, Promise.all, the  *)
(* continuation of getStats) are one action.                               *)
(*                                                                         *)
(* Encodings: Date.now() is the variable clock (milliseconds); an ISO      *)
(* timestamp string is the clock value it was formatted from; JS null is   *)
(* the record Null; a percentage is an integer number of thousandths; a    *)
(* mean is an exact reduced fraction [num, den].                           *)
(***************************************************************************)
EXTENDS Integers, Sequences, FiniteSets, TLC

\* ------------------------------------------------------------ constants
historyLimit == 20
speedHistoryLimit == 5
timeDiff == 1
FsSizeTtl == 10000
DiskLayoutTtl == 30000
BatteryTtl == 10000

\* --------------------------------------------------------------- bounds
\* Contexts: invocations that can be in flight or whose result is still held.
MaxCtx == 2
\* Passes already made when SpecHist starts, and passes it then makes.
HistFill == 19
MaxHistPasses == 2
\* Calls of SpecCache and of SpecRate.
MaxCalls == 3
MaxUpdates == 7
\* Provider calls of a run that may end other than nominally.
MaxFaults == 1

Ctx == 1..MaxCtx

\* -------------------------------------------------------------- values
Null == [null |-> TRUE]
Ok(d) == [kind |-> "ok", data |-> d]
Fail == [kind |-> "fail"]
Throw == [kind |-> "throw"]
NoOutcome == [kind |-> "none"]

Max(a, b) == IF a >= b THEN a ELSE b
Min(a, b) == IF a <= b THEN a ELSE b

RECURSIVE GCD(_, _)
GCD(a, b) == IF b = 0 THEN a ELSE GCD(b, a % b)

\* sum / n as JS computes it, kept exact: a reduced fraction.
Quotient(sum, n) ==
  LET g == GCD(sum, n) IN [num |-> sum \div g, den |-> n \div g]

Zero == [num |-> 0, den |-> 1]

\* x.toFixed(2) of a value given in thousandths: the decimal string, kept as
\* its number of hundredths (round half up).
ToFixed2(x) == [fixed2 |-> (x + 5) \div 10]
\* x.toFixed(1) of a value given in hundredths: its number of tenths.
ToFixed1(x) == [fixed1 |-> (x + 5) \div 10]
\* parseFloat of a toFixed(2) string: the number of hundredths it spells.
ParseFloat(s) == s.fixed2

\* formatBytes of ./utils: an opaque rendering of a byte count.
formatBytes(n) == [formatBytes |-> n]

\* v || 0 for an optional numeric field.
OrZero(f) == IF f.has THEN f.v ELSE 0
Some(n) == [has |-> TRUE, v |-> n]
None == [has |-> FALSE]

\* ------------------------------------------------- adapters of a pass
\* The twelve entries of the Promise.all array of getStats, in array order.
Adapters ==
  {"mem", "cpuUsage", "cpuInfo", "disk", "networkStats", "temp", "heap",
   "processCount", "fileSystemInfo", "networkSpeed", "battery", "diskLayout"}
\* osutils promises placed in the array as they are (no wrapper function).
RawAdapters == {"mem", "cpuUsage", "cpuInfo"}
\* Wrappers that touch no module state.
PureAdapters == {"disk", "temp", "processCount"}
\* Calls that go through cachedCall, and the key and ttl each passes.
CachedAdapters == {"fileSystemInfo", "battery", "diskLayout"}
ListAdapters == {"networkStats", "fileSystemInfo", "diskLayout"}

KeyOf(a) ==
  CASE a = "fileSystemInfo" -> "fsSize"
    [] a = "diskLayout" -> "diskLayout"
    [] a = "battery" -> "battery"
CacheKeys == {"fsSize", "diskLayout", "battery"}
TtlOf(a) ==
  CASE a = "fileSystemInfo" -> FsSizeTtl
    [] a = "diskLayout" -> DiskLayoutTtl
    [] a = "battery" -> BatteryTtl

\* ------------------------------------------------ provider outcomes
\* What a provider call can end with: Ok(data) (for osutils: success with
\* data; for systeminformation: the resolved value), Fail (osutils: success
\* false), Throw (the promise rejects).  The first listed is the nominal one.
MemData == [total |-> 8000, used |-> 2000, usagePercentage |-> 25004]
CpuInfoData == [model |-> "cpu-model", cores |-> 4]
DiskData == [total |-> 500, used |-> 200, available |-> 300, usagePercentage |-> 40000]
TempData == [main |-> [num |-> 4246]]
ProcData == [total |-> 9, running |-> 2, stopped |-> None, sleeping |-> Some(7)]
FsData == <<[type |-> "ext4", mount |-> "/", size |-> 500, used |-> 200, use |-> Some(4000)]>>
LayoutData == <<[name |-> "sda", vendor |-> "v", type |-> "SSD", size |-> 500,
                 interfaceType |-> "SATA", serialNum |-> "s", firmwareRevision |-> "f"]>>
BatteryData ==
  [hasBattery |-> TRUE, percent |-> 80, isCharging |-> FALSE, timeRemaining |-> 60,
   voltage |-> 12, cycleCount |-> 3]
NoBattery == [hasBattery |-> FALSE]

Iface(name, rx, tx) == [interface |-> name, rxBytes |-> rx, txBytes |-> tx]
IfA == Iface("eth0", Some(1000), Some(500))
IfB == Iface("eth0", Some(3000), Some(1500))
IfC == Iface("lo", None, Some(500))

NominalOutcome(a) ==
  CASE a = "mem" -> Ok(MemData)
    [] a = "cpuUsage" -> Ok(12345)
    [] a = "cpuInfo" -> Ok(CpuInfoData)
    [] a = "disk" -> Ok(DiskData)
    [] a = "networkStats" -> Ok(<<IfA>>)
    [] a = "temp" -> Ok(TempData)
    [] a = "processCount" -> Ok(ProcData)
    [] a = "fileSystemInfo" -> Ok(FsData)
    [] a = "networkSpeed" -> Ok(<<IfA>>)
    [] a = "battery" -> Ok(BatteryData)
    [] a = "diskLayout" -> Ok(LayoutData)

FaultOutcomes(a) ==
  CASE a \in {"mem", "cpuUsage", "cpuInfo", "processCount"} -> {Fail, Throw}
    [] a = "disk" -> {Fail, Ok(Null), Throw}
    [] a = "networkStats" -> {Fail, Throw}
    [] a = "temp" -> {Ok([main |-> [nan |-> TRUE]]), Ok(Null), Throw}
    [] a = "fileSystemInfo" -> {Ok(<<>>), Throw}
    [] a = "networkSpeed" -> {Ok(<<>>), Fail, Throw}
    [] a = "battery" -> {Ok(NoBattery), Ok(Null), Throw}
    [] a = "diskLayout" -> {Ok(<<>>), Throw}

IsFault(a, o) == o /= NominalOutcome(a)

\* ------------------------------------------------------ pure functions
\* A buffer that refuses a sample once full instead of evicting the oldest.
PushBounded_KeepOldest(h, s) ==
  IF Len(h) >= historyLimit THEN h ELSE Append(h, s)

\* push followed by the length test and shift.
PushBounded(h, s) ==
  LET h1 == Append(h, s) IN IF Len(h1) > historyLimit THEN Tail(h1) ELSE h1

PushSpeed(h, s) ==
  LET h1 == Append(h, s) IN IF Len(h1) > speedHistoryLimit THEN Tail(h1) ELSE h1

RECURSIVE SumOf(_, _)
\* reduce((sum, item) => sum + item[f], 0)
SumOf(h, f) == IF h = <<>> THEN 0 ELSE h[1][f] + SumOf(Tail(h), f)

\* iface.rxBytes ? iface.rxBytes.toBytes() : 0, summed over the interfaces.
RECURSIVE TotalBytes(_, _)
TotalBytes(ifaces, f) ==
  IF ifaces = <<>> THEN 0 ELSE OrZero(ifaces[1][f]) + TotalBytes(Tail(ifaces), f)

\* The body of getDiskStats after its await; the catch returns null.
getDiskStats(o) ==
  IF o.kind = "ok" /\ o.data /= Null
  THEN [path |-> "/",
        total |-> formatBytes(o.data.total),
        used |-> formatBytes(o.data.used),
        available |-> formatBytes(o.data.available),
        usedPercent |-> ToFixed2(o.data.usagePercentage)]
  ELSE Null

IsNumber(m) == "num" \in DOMAIN m

\* getTemperatureInfo without its isNaN test.
getTemperatureInfo_NoNaNTest(o) ==
  IF o.kind = "ok" /\ o.data /= Null
  THEN [celsius |-> IF "num" \in DOMAIN o.data.main
                    THEN ToFixed1(o.data.main.num) ELSE [nan |-> TRUE]]
  ELSE Null

getTemperatureInfo(o) ==
  IF o.kind = "ok" /\ o.data /= Null /\ IsNumber(o.data.main)
  THEN [celsius |-> ToFixed1(o.data.main.num)]
  ELSE Null

ZeroProcessCount == [all |-> 0, running |-> 0, blocked |-> 0, sleeping |-> 0]

\* getProcessCount for a settled result (a rejection is not caught).
getProcessCount(o) ==
  IF o.kind = "ok"
  THEN [all |-> o.data.total, running |-> o.data.running,
        blocked |-> OrZero(o.data.stopped), sleeping |-> OrZero(o.data.sleeping)]
  ELSE ZeroProcessCount

getBatteryStatus(o) ==
  IF o.kind = "ok" /\ o.data /= Null /\ o.data.hasBattery
  THEN [level |-> o.data.percent,
        isCharging |-> (o.data.isCharging \/ o.data.timeRemaining = 0),
        timeLeft |-> o.data.timeRemaining,
        voltage |-> o.data.voltage,
        cycleCount |-> o.data.cycleCount]
  ELSE Null

\* The map of getFileSystemInfo over a resolved fsSize list.
FileSystemInfoOf(fsSize) ==
  IF Len(fsSize) > 0
  THEN [i \in 1..Len(fsSize) |->
          [type |-> fsSize[i].type, mount |-> fsSize[i].mount,
           size |-> formatBytes(fsSize[i].size),
           used |-> formatBytes(fsSize[i].used),
           available |-> formatBytes(fsSize[i].size - fsSize[i].used),
           usedPercent |-> IF fsSize[i].use.has
                           THEN [text |-> ToFixed1(fsSize[i].use.v)]
                           ELSE [text |-> "N/A"]]]
  ELSE <<>>

DiskLayoutOf(disks) ==
  IF Len(disks) > 0
  THEN [i \in 1..Len(disks) |->
          [name |-> disks[i].name, vendor |-> disks[i].vendor, type |-> disks[i].type,
           size |-> formatBytes(disks[i].size),
           interfaceType |-> disks[i].interfaceType,
           serialNum |-> disks[i].serialNum,
           firmwareRevision |-> disks[i].firmwareRevision]]
  ELSE <<>>

\* The interfaces list getNetworkStats returns.
InterfacesOf(data) ==
  IF data = <<>> THEN <<>> ELSE
  [i \in 1..Len(data) |->
     LET input == OrZero(data[i].rxBytes)
         output == OrZero(data[i].txBytes)
     IN [interface |-> data[i].interface,
         inputBytes |-> formatBytes(input),
         outputBytes |-> formatBytes(output),
         totalBytes |-> formatBytes(input + output),
         rawInputBytes |-> input,
         rawOutputBytes |-> output]]

\* process.memoryUsage() of the host process.
MemoryUsage == [rss |-> 90, heapTotal |-> 60, heapUsed |-> 30, external |-> 5]

getHeapStats ==
  [rss |-> formatBytes(MemoryUsage.rss),
   heapTotal |-> formatBytes(MemoryUsage.heapTotal),
   heapUsed |-> formatBytes(MemoryUsage.heapUsed),
   external |-> formatBytes(MemoryUsage.external),
   rawHeapUsed |-> MemoryUsage.heapUsed,
   rawHeapTotal |-> MemoryUsage.heapTotal,
   heapUsedPercent |->
     ToFixed2((MemoryUsage.heapUsed * 100000) \div MemoryUsage.heapTotal)]

ZeroSpeed ==
  [download |-> [text |-> "0 KB/s"], upload |-> [text |-> "0 KB/s"],
   downloadRaw |-> Zero, uploadRaw |-> Zero]

\* A sample taken without Math.max(0, ...).
SpeedSample_NoClamp(last, rx, tx, now) ==
  [download |-> (rx - last.rx) \div timeDiff,
   upload |-> (tx - last.tx) \div timeDiff,
   timestamp |-> now]

\* The branch of getNetworkSpeed taken when lastNetworkStats is set: the
\* sample pushed for totals (rx, tx) at time now.
SpeedSample(last, rx, tx, now) ==
  [download |-> Max(0, (rx - last.rx) \div timeDiff),
   upload |-> Max(0, (tx - last.tx) \div timeDiff),
   timestamp |-> now]

\* Averages taken over the capacity of the ring buffer, not its length.
SpeedAverage_OverCapacity(h) ==
  LET avgDownload == Quotient(SumOf(h, "download"), speedHistoryLimit)
      avgUpload == Quotient(SumOf(h, "upload"), speedHistoryLimit)
  IN [download |-> [perSecond |-> formatBytes(avgDownload)],
      upload |-> [perSecond |-> formatBytes(avgUpload)],
      downloadRaw |-> avgDownload, uploadRaw |-> avgUpload]

\* The averages returned over the ring buffer h (after the push).
SpeedAverage(h) ==
  LET avgDownload == Quotient(SumOf(h, "download"), Len(h))
      avgUpload == Quotient(SumOf(h, "upload"), Len(h))
  IN [download |-> [perSecond |-> formatBytes(avgDownload)],
      upload |-> [perSecond |-> formatBytes(avgUpload)],
      downloadRaw |-> avgDownload, uploadRaw |-> avgUpload]

\* A cache whose entries never expire.
CacheFresh_NoExpiry(e, now, ttlMs) == e.set

\* A cache that still serves an entry aged exactly ttlMs.
CacheFresh_Inclusive(e, now, ttlMs) == e.set /\ (now - e.ts) <= ttlMs

\* The test of cachedCall: an entry exists and is younger than ttlMs.
CacheFresh(e, now, ttlMs) == e.set /\ (now - e.ts) < ttlMs

NoEntry == [set |-> FALSE]
Entry(data, ts) == [set |-> TRUE, data |-> data, ts |-> ts]

\* ---------------------------------------------------------------- state
VARIABLES
  clock,                \* Date.now()
  cpuHistory,           \* module arrays
  memoryHistory,
  networkHistory,
  _cache,               \* key -> NoEntry or Entry(data, ts)
  lastNetworkStats,     \* Null or [rx, tx]
  networkSpeedHistory,  \* the rate ring buffer
  pc,                   \* per context: idle, awaiting, resolved, rejected
  op,                   \* per context: what was invoked ("getStats" or one adapter)
  slot,                 \* per context and adapter: the adapter's promise
  result,               \* per context: what the caller received
  callNo,               \* per context: the number of the invocation it holds
  starts,               \* invocations made so far
  atReturn,             \* per context: the history contents when it returned
  cpuLog,               \* every sample ever pushed to cpuHistory, in order
  memLog,
  netLog

moduleVars ==
  <<cpuHistory, memoryHistory, networkHistory, _cache, lastNetworkStats,
    networkSpeedHistory>>
ctxVars == <<pc, op, slot, result, callNo, starts, atReturn>>
logVars == <<cpuLog, memLog, netLog>>
vars == <<clock, moduleVars, ctxVars, logVars>>

\* A promise slot: st is none, pending, fulfilled or rejected; val the value
\* it fulfilled with; src what the call observed: where the value came from,
\* the provider's outcome, Date.now() at the call, and the module state it
\* read (the cache entry for a cached call; for getNetworkSpeed, once resumed,
\* the counters and ring buffer it found).
EmptyVal(a) == IF a \in ListAdapters THEN <<>> ELSE Null
Src(from, out, now, seen) == [from |-> from, out |-> out, now |-> now, seen |-> seen]
NoSlot(a) ==
  [st |-> "none", val |-> EmptyVal(a), src |-> Src("none", NoOutcome, 0, NoEntry)]
Settled(s, st, val, o) ==
  [st |-> st, val |-> val, src |-> [s.src EXCEPT !.out = o]]

\* The state k sequential passes leave behind when pass i runs at time i and
\* every provider answers nominally (k = 0: the state after module load).
CpuSampleAt(t) == [timestamp |-> t, usage |-> 12345]
MemSampleAt(t) == [timestamp |-> t, usage |-> 2500, used |-> 2000, total |-> 8000]
NetSampleAt(t) == [timestamp |-> t, input |-> 1000, output |-> 500]
SpeedSampleAt(t) == [download |-> 0, upload |-> 0, timestamp |-> t]

SampleAt(buffer, t) ==
  CASE buffer = "cpuHistory" -> CpuSampleAt(t)
    [] buffer = "memoryHistory" -> MemSampleAt(t)
    [] buffer = "networkHistory" -> NetSampleAt(t)
    [] buffer = "networkSpeedHistory" -> SpeedSampleAt(t)

\* The samples the passes at times lo..hi pushed into a buffer.
Prefilled(lo, hi, buffer) ==
  IF hi < lo THEN <<>> ELSE [i \in 1..(hi - lo + 1) |-> SampleAt(buffer, lo + i - 1)]

InitAfter(k) ==
  /\ clock = k
  /\ cpuHistory = Prefilled(Max(1, k - historyLimit + 1), k, "cpuHistory")
  /\ memoryHistory = Prefilled(Max(1, k - historyLimit + 1), k, "memoryHistory")
  /\ networkHistory = Prefilled(Max(1, k - historyLimit + 1), k, "networkHistory")
  /\ _cache = [key \in CacheKeys |->
                 IF k = 0 THEN NoEntry
                 ELSE CASE key = "fsSize" -> Entry(FsData, 1)
                        [] key = "diskLayout" -> Entry(LayoutData, 1)
                        [] key = "battery" -> Entry(getBatteryStatus(Ok(BatteryData)), 1)]
  /\ lastNetworkStats = IF k = 0 THEN Null ELSE [rx |-> 1000, tx |-> 500]
  /\ networkSpeedHistory = Prefilled(Max(2, k - speedHistoryLimit + 1), k, "networkSpeedHistory")
  /\ pc = [c \in Ctx |-> "idle"]
  /\ op = [c \in Ctx |-> "none"]
  /\ slot = [c \in Ctx |-> [a \in Adapters |-> NoSlot(a)]]
  /\ result = [c \in Ctx |-> Null]
  /\ callNo = [c \in Ctx |-> 0]
  /\ starts = 0
  /\ atReturn = [c \in Ctx |-> Null]
  /\ cpuLog = Prefilled(1, k, "cpuHistory")
  /\ memLog = Prefilled(1, k, "memoryHistory")
  /\ netLog = Prefilled(1, k, "networkHistory")

Init == InitAfter(0)

\* -------------------------------------------------------------- actions
Quiet(c) == pc[c] /= "awaiting" /\ \A a \in Adapters : slot[c][a].st /= "pending"

\* What the caller of cachedCall makes of the data it resolves to.
CachedValue(a, data) ==
  CASE a = "fileSystemInfo" -> FileSystemInfoOf(data)
    [] a = "diskLayout" -> DiskLayoutOf(data)
    [] a = "battery" -> data

\* The synchronous part of one call of the array: what its promise is when
\* the launching code returns.  cachedCall reads Date.now() and the table
\* before it decides to call the producer.
Launch(a, now) ==
  IF a = "heap"
  THEN [st |-> "fulfilled", val |-> getHeapStats, src |-> Src("sync", NoOutcome, now, NoEntry)]
  ELSE IF a \in CachedAdapters
  THEN LET e == _cache[KeyOf(a)] IN
       IF CacheFresh(e, now, TtlOf(a))
       THEN [st |-> "fulfilled", val |-> CachedValue(a, e.data),
             src |-> Src("cache", NoOutcome, now, e)]
       ELSE [st |-> "pending", val |-> EmptyVal(a), src |-> Src("provider", NoOutcome, now, e)]
  ELSE [st |-> "pending", val |-> EmptyVal(a), src |-> Src("provider", NoOutcome, now, NoEntry)]

\* The Snapshot getStats assembles from the settled array ns at time now.
\* The three history fields are the module arrays themselves (references).
Snapshot(ns, now) ==
  LET memRes == ns["mem"].val
      cpuUsageRes == ns["cpuUsage"].val
      cpuInfoRes == ns["cpuInfo"].val
      totalMem == IF memRes.kind = "ok" THEN memRes.data.total ELSE 0
      usedMem == IF memRes.kind = "ok" THEN memRes.data.used ELSE 0
      usedMemPercent == IF memRes.kind = "ok"
                        THEN ToFixed2(memRes.data.usagePercentage) ELSE ToFixed2(0)
      cpuUsage == IF cpuUsageRes.kind = "ok" THEN cpuUsageRes.data ELSE 0
  IN [cpu |-> ToFixed2(cpuUsage),
      cpu_name |-> IF cpuInfoRes.kind = "ok" THEN cpuInfoRes.data.model ELSE "os-cpu-model",
      ram |-> usedMemPercent,
      uptime |-> 1,
      ram_text |-> [used |-> formatBytes(usedMem), total |-> formatBytes(totalMem),
                    percent |-> usedMemPercent],
      platform |-> "linux",
      architecture |-> "x64",
      cpu_cores |-> IF cpuInfoRes.kind = "ok" THEN cpuInfoRes.data.cores ELSE 1,
      hostname |-> "host",
      load_average |-> <<0, 0, 0>>,
      temperature |-> ns["temp"].val,
      disk |-> ns["disk"].val,
      network |-> ns["networkStats"].val,
      cpu_history |-> [ref |-> "cpuHistory"],
      memory_history |-> [ref |-> "memoryHistory"],
      network_history |-> [ref |-> "networkHistory"],
      heap |-> ns["heap"].val,
      process_count |-> ns["processCount"].val,
      file_system_info |-> ns["fileSystemInfo"].val,
      network_speed |-> ns["networkSpeed"].val,
      battery_status |-> ns["battery"].val,
      system_time |-> [timestamp |-> now],
      disk_layout |-> ns["diskLayout"].val]

\* A cpu sample stamped with the time its pass was launched.
CpuSample_StampedAtLaunch(ns, now) ==
  [timestamp |-> ns["mem"].src.now,
   usage |-> IF ns["cpuUsage"].val.kind = "ok" THEN ns["cpuUsage"].val.data ELSE 0]

CpuSample(ns, now) ==
  [timestamp |-> now,
   usage |-> IF ns["cpuUsage"].val.kind = "ok" THEN ns["cpuUsage"].val.data ELSE 0]

MemorySample(ns, now) ==
  LET memRes == ns["mem"].val IN
  [timestamp |-> now,
   usage |-> ParseFloat(IF memRes.kind = "ok"
                        THEN ToFixed2(memRes.data.usagePercentage) ELSE ToFixed2(0)),
   used |-> IF memRes.kind = "ok" THEN memRes.data.used ELSE 0,
   total |-> IF memRes.kind = "ok" THEN memRes.data.total ELSE 0]

\* What follows the settling of one call of context c, in the same turn of
\* the event loop, ns being the array of c after it and nh the network
\* history after it.  Promise.all rejects at the first rejected entry and
\* resolves when the last entry is fulfilled; getStats then resumes, pushes
\* the cpu and memory samples and returns the Snapshot.  A directly invoked
\* adapter returns its own value.
FanIn(c, ns, nh) ==
  IF pc[c] = "awaiting" /\ \E a \in Adapters : ns[a].st = "rejected"
  THEN /\ pc' = [pc EXCEPT ![c] = "rejected"]
       /\ UNCHANGED <<cpuHistory, memoryHistory, result, atReturn, cpuLog, memLog>>
  ELSE IF pc[c] = "awaiting" /\ \A a \in Adapters : ns[a].st \in {"none", "fulfilled"}
  THEN /\ pc' = [pc EXCEPT ![c] = "resolved"]
       /\ IF op[c] = "getStats"
          THEN /\ cpuHistory' = PushBounded(cpuHistory, CpuSample(ns, clock))
               /\ memoryHistory' = PushBounded(memoryHistory, MemorySample(ns, clock))
               /\ cpuLog' = Append(cpuLog, CpuSample(ns, clock))
               /\ memLog' = Append(memLog, MemorySample(ns, clock))
               /\ result' = [result EXCEPT ![c] = Snapshot(ns, clock)]
               /\ atReturn' = [atReturn EXCEPT ![c] =
                                 [cpu |-> cpuHistory', memory |-> memoryHistory',
                                  network |-> nh]]
          ELSE /\ result' = [result EXCEPT ![c] = [value |-> ns[op[c]].val]]
               /\ UNCHANGED <<cpuHistory, memoryHistory, atReturn, cpuLog, memLog>>
  ELSE UNCHANGED <<pc, cpuHistory, memoryHistory, result, atReturn, cpuLog, memLog>>

\* An invocation: getStats (every adapter launched) or one adapter alone.
\* serial: the caller waits for everything earlier to have settled.
Start(c, what, launched, serial, limit) ==
  /\ starts < limit
  /\ Quiet(c)
  /\ serial => \A d \in Ctx : Quiet(d)
  /\ LET ns == [a \in Adapters |->
                  IF a \in launched THEN Launch(a, clock) ELSE NoSlot(a)]
     IN /\ slot' = [slot EXCEPT ![c] = ns]
        /\ op' = [op EXCEPT ![c] = what]
        /\ starts' = starts + 1
        /\ callNo' = [callNo EXCEPT ![c] = starts + 1]
        /\ IF \A a \in Adapters : ns[a].st \in {"none", "fulfilled"}
           THEN /\ pc' = [pc EXCEPT ![c] = "resolved"]
                /\ result' = [result EXCEPT ![c] = [value |-> ns[what].val]]
           ELSE /\ pc' = [pc EXCEPT ![c] = "awaiting"]
                /\ result' = [result EXCEPT ![c] = Null]
        /\ atReturn' = [atReturn EXCEPT ![c] = Null]
  /\ UNCHANGED <<clock, moduleVars, logVars>>

StartPass(c, serial, limit) == Start(c, "getStats", Adapters, serial, limit)

StartCall(c, a, serial, limit) == Start(c, a, {a}, serial, limit)

\* osutils.memory.info(), osutils.cpu.usage(), osutils.cpu.info() settle.
SettleRaw(c, a, o) ==
  /\ a \in RawAdapters
  /\ slot[c][a].st = "pending"
  /\ LET ns == [slot[c] EXCEPT ![a] =
                  IF o.kind = "throw" THEN Settled(@, "rejected", Null, o)
                  ELSE Settled(@, "fulfilled", o, o)]
     IN /\ slot' = [slot EXCEPT ![c] = ns]
        /\ FanIn(c, ns, networkHistory)
  /\ UNCHANGED <<clock, networkHistory, _cache, lastNetworkStats, networkSpeedHistory,
                 op, callNo, starts, netLog>>

\* getDiskStats, getTemperatureInfo, getProcessCount resume after their await.
SettlePure(c, a, o) ==
  /\ a \in PureAdapters
  /\ slot[c][a].st = "pending"
  /\ LET ns == [slot[c] EXCEPT ![a] =
                  CASE a = "disk" -> Settled(@, "fulfilled", getDiskStats(o), o)
                    [] a = "temp" -> Settled(@, "fulfilled", getTemperatureInfo(o), o)
                    [] a = "processCount" ->
                         IF o.kind = "throw" THEN Settled(@, "rejected", Null, o)
                         ELSE Settled(@, "fulfilled", getProcessCount(o), o)]
     IN /\ slot' = [slot EXCEPT ![c] = ns]
        /\ FanIn(c, ns, networkHistory)
  /\ UNCHANGED <<clock, networkHistory, _cache, lastNetworkStats, networkSpeedHistory,
                 op, callNo, starts, netLog>>

\* getNetworkStats resumes after its await (no try/catch around it).
NetworkSample(data, now) ==
  [timestamp |-> now, input |-> TotalBytes(data, "rxBytes"),
   output |-> TotalBytes(data, "txBytes")]

SettleNetworkStats(c, o) ==
  /\ slot[c]["networkStats"].st = "pending"
  /\ LET ns == [slot[c] EXCEPT !["networkStats"] =
                  IF o.kind = "throw" THEN Settled(@, "rejected", <<>>, o)
                  ELSE IF o.kind = "fail" THEN Settled(@, "fulfilled", <<>>, o)
                  ELSE Settled(@, "fulfilled", InterfacesOf(o.data), o)]
         nh == IF o.kind = "ok"
               THEN PushBounded(networkHistory, NetworkSample(o.data, clock))
               ELSE networkHistory
     IN /\ slot' = [slot EXCEPT ![c] = ns]
        /\ networkHistory' = nh
        /\ netLog' = IF o.kind = "ok"
                     THEN Append(netLog, NetworkSample(o.data, clock)) ELSE netLog
        /\ FanIn(c, ns, nh)
  /\ UNCHANGED <<clock, _cache, lastNetworkStats, networkSpeedHistory,
                 op, callNo, starts>>

\* getNetworkSpeed forgetting its counters and samples when the read fails.
getNetworkSpeed_ResetOnFailure(last, h, o, now) ==
  IF o.kind /= "ok" \/ o.data = <<>>
  THEN [last |-> Null, h |-> <<>>, ret |-> ZeroSpeed]
  ELSE LET totalRxBytes == TotalBytes(o.data, "rxBytes")
           totalTxBytes == TotalBytes(o.data, "txBytes")
       IN IF last /= Null
          THEN LET h1 == PushSpeed(h, SpeedSample(last, totalRxBytes, totalTxBytes, now))
               IN [last |-> [rx |-> totalRxBytes, tx |-> totalTxBytes],
                   h |-> h1, ret |-> SpeedAverage(h1)]
          ELSE [last |-> [rx |-> totalRxBytes, tx |-> totalTxBytes],
                h |-> h, ret |-> ZeroSpeed]

\* getNetworkSpeed keeping the highest counters seen instead of the last.
getNetworkSpeed_KeepHighest(last, h, o, now) ==
  IF o.kind /= "ok" \/ o.data = <<>>
  THEN [last |-> last, h |-> h, ret |-> ZeroSpeed]
  ELSE LET totalRxBytes == TotalBytes(o.data, "rxBytes")
           totalTxBytes == TotalBytes(o.data, "txBytes")
       IN IF last /= Null
          THEN LET h1 == PushSpeed(h, SpeedSample(last, totalRxBytes, totalTxBytes, now))
               IN [last |-> [rx |-> Max(last.rx, totalRxBytes),
                             tx |-> Max(last.tx, totalTxBytes)],
                   h |-> h1, ret |-> SpeedAverage(h1)]
          ELSE [last |-> [rx |-> totalRxBytes, tx |-> totalTxBytes],
                h |-> h, ret |-> ZeroSpeed]

\* getNetworkSpeed without its cold-start branch: absent counters count as 0.
getNetworkSpeed_NoColdStart(last, h, o, now) ==
  IF o.kind /= "ok" \/ o.data = <<>>
  THEN [last |-> last, h |-> h, ret |-> ZeroSpeed]
  ELSE LET totalRxBytes == TotalBytes(o.data, "rxBytes")
           totalTxBytes == TotalBytes(o.data, "txBytes")
           prev == IF last /= Null THEN last ELSE [rx |-> 0, tx |-> 0]
           h1 == PushSpeed(h, SpeedSample(prev, totalRxBytes, totalTxBytes, now))
       IN [last |-> [rx |-> totalRxBytes, tx |-> totalTxBytes],
           h |-> h1, ret |-> SpeedAverage(h1)]

\* The body of getNetworkSpeed after its await, for the counters state
\* (last, h) and the provider outcome o at time now: the new counters, the
\* new ring buffer and the value returned.
getNetworkSpeed(last, h, o, now) ==
  IF o.kind /= "ok" \/ o.data = <<>>
  THEN [last |-> last, h |-> h, ret |-> ZeroSpeed]
  ELSE LET totalRxBytes == TotalBytes(o.data, "rxBytes")
           totalTxBytes == TotalBytes(o.data, "txBytes")
       IN IF last /= Null
          THEN LET h1 == PushSpeed(h, SpeedSample(last, totalRxBytes, totalTxBytes, now))
               IN [last |-> [rx |-> totalRxBytes, tx |-> totalTxBytes],
                   h |-> h1, ret |-> SpeedAverage(h1)]
          ELSE [last |-> [rx |-> totalRxBytes, tx |-> totalTxBytes],
                h |-> h, ret |-> ZeroSpeed]

SettleNetworkSpeed(c, o) ==
  /\ slot[c]["networkSpeed"].st = "pending"
  /\ LET r == getNetworkSpeed(lastNetworkStats, networkSpeedHistory, o, clock)
         ns == [slot[c] EXCEPT !["networkSpeed"] =
                  [st |-> "fulfilled", val |-> r.ret,
                   src |-> [@.src EXCEPT !.out = o,
                              !.seen = [last |-> lastNetworkStats,
                                        h |-> networkSpeedHistory]]]]
     IN /\ slot' = [slot EXCEPT ![c] = ns]
        /\ lastNetworkStats' = r.last
        /\ networkSpeedHistory' = r.h
        /\ FanIn(c, ns, networkHistory)
  /\ UNCHANGED <<clock, networkHistory, _cache, op, callNo, starts, netLog>>

\* A cachedCall that stores an entry also when its producer rejected.
SettleCached_StoreFailure(c, a, o) ==
  /\ a \in CachedAdapters
  /\ slot[c][a].st = "pending"
  /\ LET stored == a = "battery" \/ o.kind = "ok"
         ns == [slot[c] EXCEPT ![a] =
                  IF stored
                  THEN Settled(@, "fulfilled",
                               CachedValue(a, IF a = "battery" THEN getBatteryStatus(o)
                                              ELSE o.data), o)
                  ELSE Settled(@, "fulfilled", <<>>, o)]
     IN /\ slot' = [slot EXCEPT ![c] = ns]
        /\ _cache' = [_cache EXCEPT ![KeyOf(a)] =
                        Entry(IF a = "battery" THEN getBatteryStatus(o)
                              ELSE IF o.kind = "ok" THEN o.data ELSE <<>>,
                              slot[c][a].src.now)]
        /\ FanIn(c, ns, networkHistory)
  /\ UNCHANGED <<clock, networkHistory, lastNetworkStats, networkSpeedHistory,
                 op, callNo, starts, netLog>>

\* The producer of a cachedCall settles: the then-callback stores the data
\* under the time read when cachedCall was entered, and the caller resumes.
\* A rejected producer stores nothing; getFileSystemInfo and getDiskLayout
\* catch the rejection.  The battery producer is getBatteryStatus, which
\* catches its own.
\* A producer result replaced by the answer of a nominal call.
CachedData_Nominal(a, o) ==
  IF a = "battery" THEN getBatteryStatus(NominalOutcome(a)) ELSE NominalOutcome(a).data

CachedData(a, o) == IF a = "battery" THEN getBatteryStatus(o) ELSE o.data

SettleCached(c, a, o) ==
  /\ a \in CachedAdapters
  /\ slot[c][a].st = "pending"
  /\ LET stored == a = "battery" \/ o.kind = "ok"
         ns == [slot[c] EXCEPT ![a] =
                  IF stored
                  THEN Settled(@, "fulfilled", CachedValue(a, CachedData(a, o)), o)
                  ELSE Settled(@, "fulfilled", <<>>, o)]
     IN /\ slot' = [slot EXCEPT ![c] = ns]
        /\ _cache' = IF stored
                     THEN [_cache EXCEPT ![KeyOf(a)] =
                             Entry(CachedData(a, o), slot[c][a].src.now)]
                     ELSE _cache
        /\ FanIn(c, ns, networkHistory)
  /\ UNCHANGED <<clock, networkHistory, lastNetworkStats, networkSpeedHistory,
                 op, callNo, starts, netLog>>

\* Time passes: Date.now() moves to a later instant of S.
Tick(S) ==
  /\ \E t \in S : t > clock /\ clock' = t
  /\ UNCHANGED <<moduleVars, ctxVars, logVars>>

\* -------------------------------------------------------- specification
\* The provider calls on record that ended other than nominally.
Faults ==
  Cardinality({x \in Ctx \X (Adapters \ {"heap"}) :
                 /\ slot[x[1]][x[2]].src.out.kind /= "none"
                 /\ IsFault(x[2], slot[x[1]][x[2]].src.out)})

Outcomes(a) ==
  {NominalOutcome(a)} \cup (IF Faults < MaxFaults THEN FaultOutcomes(a) ELSE {})

\* getStats invoked one pass at a time (the k-th pass in context k), every
\* provider call free to end nominally or, within MaxFaults, otherwise.
Next ==
  \/ \E c \in Ctx : c = starts + 1 /\ StartPass(c, TRUE, MaxCtx)
  \/ \E c \in Ctx, a \in RawAdapters : \E o \in Outcomes(a) : SettleRaw(c, a, o)
  \/ \E c \in Ctx, a \in PureAdapters : \E o \in Outcomes(a) : SettlePure(c, a, o)
  \/ \E c \in Ctx : \E o \in Outcomes("networkStats") : SettleNetworkStats(c, o)
  \/ \E c \in Ctx : \E o \in Outcomes("networkSpeed") : SettleNetworkSpeed(c, o)
  \/ \E c \in Ctx, a \in CachedAdapters : \E o \in Outcomes(a) : SettleCached(c, a, o)

Spec == Init /\ [][Next]_vars

\* The history buffers at their limit: passes (each in context 1, one
\* after the other) that start from the state HistFill earlier passes left,
\* with time passing between and within them.
HistInstants == {HistFill + 1, FsSizeTtl + 1}

NextHist ==
  \/ StartPass(1, TRUE, MaxHistPasses)
  \/ \E c \in Ctx, a \in RawAdapters : SettleRaw(c, a, NominalOutcome(a))
  \/ \E c \in Ctx, a \in PureAdapters : SettlePure(c, a, NominalOutcome(a))
  \/ \E c \in Ctx : \E o \in {NominalOutcome("networkStats"), Fail} :
       SettleNetworkStats(c, o)
  \/ \E c \in Ctx : SettleNetworkSpeed(c, NominalOutcome("networkSpeed"))
  \/ \E c \in Ctx, a \in CachedAdapters : SettleCached(c, a, NominalOutcome(a))
  \/ Tick(HistInstants)

SpecHist == InitAfter(HistFill) /\ [][NextHist]_vars

\* cachedCall on its own: the three cached calls of the module invoked one
\* after the other at the instants around their ttl.
CacheInstants ==
  {0, FsSizeTtl - 1, FsSizeTtl, FsSizeTtl + 1,
   DiskLayoutTtl - 1, DiskLayoutTtl, DiskLayoutTtl + 1}

CacheOutcomes(a) == {NominalOutcome(a)} \cup FaultOutcomes(a)

NextCache ==
  \/ \E a \in CachedAdapters : StartCall(1, a, TRUE, MaxCalls)
  \/ \E a \in CachedAdapters : \E o \in CacheOutcomes(a) : SettleCached(1, a, o)
  \/ Tick(CacheInstants)

SpecCache == Init /\ [][NextCache]_vars

\* The rate estimator on its own: getNetworkSpeed invoked one call after
\* the other.
SpeedOutcomes == {Ok(<<IfA>>), Ok(<<IfB>>), Ok(<<IfB, IfC>>), Ok(<<>>), Fail, Throw}

RateInstants == {0, 1}

NextRate ==
  \/ StartCall(1, "networkSpeed", TRUE, MaxUpdates)
  \/ \E o \in SpeedOutcomes : SettleNetworkSpeed(1, o)
  \/ Tick(RateInstants)

SpecRate == Init /\ [][NextRate]_vars

\* The cached calls racing: each invoked at any time, also while calls for
\* the same key are in flight.
RaceInstants == {1, 2}

RaceOutcomes(a) == {NominalOutcome(a)} \cup FaultOutcomes(a)

NextRace ==
  \/ \E c \in Ctx, a \in CachedAdapters : StartCall(c, a, FALSE, MaxCalls)
  \/ \E c \in Ctx, a \in CachedAdapters : \E o \in RaceOutcomes(a) : SettleCached(c, a, o)
  \/ Tick(RaceInstants)

SpecRace == Init /\ [][NextRace]_vars

\* Overlapping passes: getStats invoked again while earlier passes are in
\* flight (the k-th pass in context k), from the state HistFill passes left,
\* with time passing between the steps.  The cache entries stay fresh over
\* these instants, so the cached calls are answered at launch.  The six
\* calls that read and write no module state commute with every other step;
\* they are taken in the order of the array, which leaves every order of the
\* steps that touch the buffers and the estimator.
OverlapInstants == {HistFill + 1, HistFill + 2}

ArrayOrder ==
  <<"mem", "cpuUsage", "cpuInfo", "disk", "networkStats", "temp", "heap",
    "processCount", "fileSystemInfo", "networkSpeed", "battery", "diskLayout">>
IndexOf(a) == CHOOSE i \in 1..Len(ArrayOrder) : ArrayOrder[i] = a
Foremost(c, a) ==
  \A b \in RawAdapters \cup PureAdapters :
    IndexOf(b) < IndexOf(a) => slot[c][b].st /= "pending"

NextOverlap ==
  \/ \E c \in Ctx : c = starts + 1 /\ StartPass(c, FALSE, MaxCtx)
  \/ \E c \in Ctx, a \in RawAdapters :
       Foremost(c, a) /\ SettleRaw(c, a, NominalOutcome(a))
  \/ \E c \in Ctx, a \in PureAdapters :
       Foremost(c, a) /\ SettlePure(c, a, NominalOutcome(a))
  \/ \E c \in Ctx : SettleNetworkStats(c, NominalOutcome("networkStats"))
  \/ \E c \in Ctx : \E o \in {NominalOutcome("networkSpeed"), Ok(<<IfB>>)} :
       SettleNetworkSpeed(c, o)
  \/ Tick(OverlapInstants)

SpecOverlap == InitAfter(HistFill) /\ [][NextOverlap]_vars

\* ---------------------------------------------------------------- claims
SnapshotFields ==
  {"cpu", "cpu_name", "ram", "uptime", "ram_text", "platform", "architecture",
   "cpu_cores", "hostname", "load_average", "temperature", "disk", "network",
   "cpu_history", "memory_history", "network_history", "heap", "process_count",
   "file_system_info", "network_speed", "battery_status", "system_time",
   "disk_layout"}

Returned(c) == op[c] = "getStats" /\ pc[c] = "resolved"

\* C1: getStats never rejects, whatever the providers do (each may succeed,
\* report failure or throw).
C1_GetStatsNeverRejects ==
  \A c \in Ctx : op[c] = "getStats" => pc[c] /= "rejected"

\* A source counts as failed when its provider reported failure or threw, or
\* answered with nothing usable (no data, a NaN reading).
SourceFailed(a, o) ==
  \/ o.kind \in {"fail", "throw"}
  \/ /\ o.kind = "ok"
     /\ CASE a \in {"disk", "battery"} -> o.data = Null
          [] a = "temp" -> o.data = Null \/ ~IsNumber(o.data.main)
          [] a \in {"fileSystemInfo", "diskLayout", "networkSpeed"} -> o.data = <<>>
          [] OTHER -> FALSE

Queried(c, a) == slot[c][a].src.from = "provider"

\* C2: in every Snapshot a pass returns, all fields are present; the field
\* of each source that failed in the pass is its documented default (disk
\* null, network [], temperature null also for NaN, battery_status null,
\* process_count all zero, file_system_info [], disk_layout [], network_speed
\* 0/0); the field of each source that answered carries that answer.
C2_DefaultsOnFailure ==
  \A c \in Ctx : Returned(c) =>
    LET r == result[c]
        out(a) == slot[c][a].src.out
        failed(a) == Queried(c, a) /\ SourceFailed(a, out(a))
        answered(a) == Queried(c, a) /\ ~SourceFailed(a, out(a))
    IN /\ DOMAIN r = SnapshotFields
       /\ failed("disk") => r.disk = Null
       /\ failed("networkStats") => r.network = <<>>
       /\ failed("temp") => r.temperature = Null
       /\ failed("battery") => r.battery_status = Null
       /\ failed("processCount") =>
            r.process_count = [all |-> 0, running |-> 0, blocked |-> 0, sleeping |-> 0]
       /\ failed("fileSystemInfo") => r.file_system_info = <<>>
       /\ failed("diskLayout") => r.disk_layout = <<>>
       /\ failed("networkSpeed") =>
            /\ r.network_speed.downloadRaw = Zero
            /\ r.network_speed.uploadRaw = Zero
            /\ r.network_speed.download = [text |-> "0 KB/s"]
            /\ r.network_speed.upload = [text |-> "0 KB/s"]
       /\ answered("disk") => r.disk = getDiskStats(out("disk")) /\ r.disk /= Null
       /\ answered("networkStats") =>
            r.network = InterfacesOf(out("networkStats").data)
       /\ answered("temp") =>
            r.temperature = [celsius |-> ToFixed1(out("temp").data.main.num)]
       /\ answered("battery") =>
            r.battery_status = getBatteryStatus(out("battery"))
       /\ answered("processCount") =>
            r.process_count.all = out("processCount").data.total
       /\ answered("fileSystemInfo") =>
            Len(r.file_system_info) = Len(out("fileSystemInfo").data)
       /\ answered("diskLayout") =>
            Len(r.disk_layout) = Len(out("diskLayout").data)

\* C2 witness: a pass returned although its temperature reading was NaN, with
\* temperature null and the disk field filled.
C2_Witness ==
  \E c \in Ctx :
    /\ Returned(c)
    /\ slot[c]["temp"].src.out = Ok([main |-> [nan |-> TRUE]])
    /\ result[c].temperature = Null
    /\ result[c].disk /= Null

LastN(log, n) == SubSeq(log, Len(log) - n + 1, Len(log))

\* C3: each history buffer holds exactly the min(N, 20) most recently
\* appended samples, oldest first, N being the number of appends so far.
C3_HistoryHoldsMostRecent ==
  /\ cpuHistory = LastN(cpuLog, Min(Len(cpuLog), 20))
  /\ memoryHistory = LastN(memLog, Min(Len(memLog), 20))
  /\ networkHistory = LastN(netLog, Min(Len(netLog), 20))

\* C3 witness: the 21st sample has been appended to a full cpu buffer, and
\* the former second sample is now the first.
C3_Witness ==
  /\ Len(cpuLog) = 21
  /\ Len(cpuHistory) = 20
  /\ cpuHistory[1] = cpuLog[2]
  /\ cpuHistory[20] = cpuLog[21]
  /\ cpuLog[1] /= cpuLog[2]

\* The one cached call SpecCache has made last, and the rate update SpecRate
\* has made last (both run in context 1, one call at a time).
Age(a) == slot[1][a].src.now - slot[1][a].src.seen.ts

\* C4: for sequential cachedCall invocations, a call made less than ttl after
\* the call that stored the entry returns the stored value, invokes no
\* producer and leaves the entry as it is; a call made more than ttl after
\* it invokes the producer again and stores its result.
C4_FreshServedExpiredRecomputed ==
  \A a \in CachedAdapters :
    LET s == slot[1][a] IN
    (s.st /= "none" /\ s.src.seen.set) =>
      /\ Age(a) < TtlOf(a) =>
           /\ s.st = "fulfilled"
           /\ s.src.from = "cache"
           /\ s.val = CachedValue(a, s.src.seen.data)
           /\ _cache[KeyOf(a)] = s.src.seen
      /\ Age(a) > TtlOf(a) =>
           /\ s.src.from = "provider"
           /\ (s.st = "fulfilled" /\ s.src.out.kind = "ok") =>
                /\ _cache[KeyOf(a)].ts = s.src.now
                /\ _cache[KeyOf(a)].data = CachedData(a, s.src.out)

\* C4 witness: an entry stored by a call at t0 was found expired by a later
\* call, whose producer ran and whose result replaced it.
C4_Witness ==
  \E a \in CachedAdapters :
    /\ slot[1][a].st = "fulfilled"
    /\ slot[1][a].src.seen.set
    /\ Age(a) > TtlOf(a)
    /\ slot[1][a].src.out.kind = "ok"
    /\ _cache[KeyOf(a)].ts = slot[1][a].src.now

\* C5: a value served from the cache without invoking the producer is
\* younger than ttl: now - storedAt < ttl at the call that returned it.
C5_StrictTtl ==
  \A c \in Ctx, a \in CachedAdapters :
    slot[c][a].src.from = "cache" =>
      /\ slot[c][a].src.seen.set
      /\ slot[c][a].src.now - slot[c][a].src.seen.ts < TtlOf(a)
      /\ slot[c][a].src.out = NoOutcome

\* C5 witness: a value was served one millisecond before its expiry.
C5_Witness ==
  \E a \in CachedAdapters :
    /\ slot[1][a].src.from = "cache"
    /\ Age(a) = TtlOf(a) - 1

\* The last rate update read at least one interface.
SpeedRead ==
  /\ slot[1]["networkSpeed"].st = "fulfilled"
  /\ slot[1]["networkSpeed"].src.out.kind = "ok"
  /\ slot[1]["networkSpeed"].src.out.data /= <<>>
SpeedSeen == slot[1]["networkSpeed"].src.seen
SpeedRet == slot[1]["networkSpeed"].val
SpeedRx == TotalBytes(slot[1]["networkSpeed"].src.out.data, "rxBytes")
SpeedTx == TotalBytes(slot[1]["networkSpeed"].src.out.data, "txBytes")

\* C6: an update that reads interfaces while no counters are stored returns
\* 0/0, stores the counters and pushes nothing; the update after it returns
\* rates >= 0 even when the counters went down.
C6_ColdStart ==
  /\ (SpeedRead /\ SpeedSeen.last = Null) =>
       /\ SpeedRet.downloadRaw = Zero
       /\ SpeedRet.uploadRaw = Zero
       /\ lastNetworkStats = [rx |-> SpeedRx, tx |-> SpeedTx]
       /\ networkSpeedHistory = SpeedSeen.h
  /\ (SpeedRead /\ SpeedSeen.last /= Null /\ SpeedSeen.h = <<>>) =>
       /\ SpeedRet.downloadRaw.num >= 0 /\ SpeedRet.downloadRaw.den > 0
       /\ SpeedRet.uploadRaw.num >= 0 /\ SpeedRet.uploadRaw.den > 0

\* C6 witness: the update after the cold start read lower counters than the
\* cold start stored.
C6_Witness ==
  /\ SpeedRead
  /\ SpeedSeen.last /= Null
  /\ SpeedSeen.h = <<>>
  /\ SpeedRx < SpeedSeen.last.rx
  /\ SpeedTx < SpeedSeen.last.tx
  /\ SpeedRet.downloadRaw = Zero

\* C7: every sample of the ring buffer and every returned rate is >= 0; an
\* update whose rx (tx) counter is below the stored one pushes a raw
\* download (upload) of exactly 0.
C7_RatesNonNegative ==
  /\ \A i \in 1..Len(networkSpeedHistory) :
       networkSpeedHistory[i].download >= 0 /\ networkSpeedHistory[i].upload >= 0
  /\ slot[1]["networkSpeed"].st = "fulfilled" =>
       /\ SpeedRet.downloadRaw.num >= 0 /\ SpeedRet.downloadRaw.den > 0
       /\ SpeedRet.uploadRaw.num >= 0 /\ SpeedRet.uploadRaw.den > 0
  /\ (SpeedRead /\ SpeedSeen.last /= Null) =>
       /\ SpeedRx < SpeedSeen.last.rx =>
            networkSpeedHistory[Len(networkSpeedHistory)].download = 0
       /\ SpeedTx < SpeedSeen.last.tx =>
            networkSpeedHistory[Len(networkSpeedHistory)].upload = 0

\* C7 witness: an update read an rx counter below the stored one while the
\* ring buffer already held a positive sample.
C7_Witness ==
  /\ SpeedRead
  /\ SpeedSeen.last /= Null
  /\ SpeedRx < SpeedSeen.last.rx
  /\ \E i \in 1..Len(SpeedSeen.h) : SpeedSeen.h[i].download > 0

\* C8: the ring buffer holds at most 5 samples and drops the oldest first;
\* a non-cold-start update returns the mean over the samples held after its
\* push (k+1 when it held k < 5, else 5); update(1000,500) on a fresh
\* estimator then update(3000,1500) leaves [{2000,1000}] and returns
\* {2000,1000}.
C8_MovingAverage ==
  /\ Len(networkSpeedHistory) <= 5
  /\ (SpeedRead /\ SpeedSeen.last /= Null) =>
       LET k == Len(SpeedSeen.h)
           n == Len(networkSpeedHistory)
       IN /\ n = Min(k + 1, 5)
          /\ SubSeq(networkSpeedHistory, 1, n - 1)
               = (IF k < 5 THEN SpeedSeen.h ELSE Tail(SpeedSeen.h))
          /\ SpeedRet.downloadRaw.num * n
               = SpeedRet.downloadRaw.den * SumOf(networkSpeedHistory, "download")
          /\ SpeedRet.uploadRaw.num * n
               = SpeedRet.uploadRaw.den * SumOf(networkSpeedHistory, "upload")
  /\ (/\ SpeedRead
      /\ SpeedSeen.last = [rx |-> 1000, tx |-> 500]
      /\ SpeedSeen.h = <<>>
      /\ SpeedRx = 3000 /\ SpeedTx = 1500) =>
       /\ Len(networkSpeedHistory) = 1
       /\ networkSpeedHistory[1].download = 2000
       /\ networkSpeedHistory[1].upload = 1000
       /\ SpeedRet.downloadRaw = [num |-> 2000, den |-> 1]
       /\ SpeedRet.uploadRaw = [num |-> 1000, den |-> 1]

\* C8 witness: an update pushed into a full ring buffer of unequal samples.
C8_Witness ==
  /\ SpeedRead
  /\ SpeedSeen.last /= Null
  /\ Len(SpeedSeen.h) = 5
  /\ SpeedSeen.h[1].download /= SpeedSeen.h[2].download
  /\ networkSpeedHistory[1] = SpeedSeen.h[2]
  /\ SpeedRet.downloadRaw /= Zero
  /\ SpeedRet.downloadRaw.num /= networkSpeedHistory[5].download

\* C9: after any sequence of non-overlapping passes each of the three
\* buffers has received one append per pass that resolved and none from a
\* pass that did not.
C9_OneAppendPerResolvedPass ==
  (\A c \in Ctx : Quiet(c)) =>
    LET n == Cardinality({c \in Ctx : Returned(c)})
    IN Len(cpuLog) = n /\ Len(memLog) = n /\ Len(netLog) = n

\* What reading a history field of a returned Snapshot yields now.
Deref(r) ==
  CASE r.ref = "cpuHistory" -> cpuHistory
    [] r.ref = "memoryHistory" -> memoryHistory
    [] r.ref = "networkHistory" -> networkHistory

\* C10: the history lists of a Snapshot that getStats returned keep the
\* contents they had when it was returned, whatever later passes do.
C10_SnapshotUnchangedByLaterPasses ==
  \A c \in Ctx : Returned(c) =>
    /\ Deref(result[c].cpu_history) = atReturn[c].cpu
    /\ Deref(result[c].memory_history) = atReturn[c].memory
    /\ Deref(result[c].network_history) = atReturn[c].network

\* The module state a pass appends to or updates.
buffers == <<cpuHistory, memoryHistory, networkHistory>>
estimator == <<lastNetworkStats, networkSpeedHistory>>

\* C11: within a pass, a history append or a rate estimator update is made
\* only once every adapter call of the pass has settled: no step of a pass
\* changes a buffer or the estimator and leaves a call of the pass pending.
C11_MutationsAfterAllSettled ==
  [][\A c \in Ctx :
       (/\ op[c] = "getStats"
        /\ slot'[c] /= slot[c]
        /\ <<buffers, estimator>>' /= <<buffers, estimator>>)
       => \A a \in Adapters : slot'[c][a].st /= "pending"]_vars

\* The pass made after the one of context c (passes of Spec run in
\* contexts 1, 2, ... in turn).
Following(c) == c + 1

\* C13: a source that failed (reported failure or threw) in one pass is
\* queried again by the next pass, which reports what the source then
\* answers.
C13_FailureLastsOnePass ==
  \A c \in Ctx, a \in Adapters \ {"heap"} :
    (/\ Following(c) \in Ctx
     /\ op[c] = "getStats"
     /\ op[Following(c)] = "getStats"
     /\ slot[c][a].src.out.kind \in {"fail", "throw"})
    => slot[Following(c)][a].src.from = "provider"

\* C15: a pass completes, with a Snapshot or with an error, only after
\* every one of its adapter calls has settled.
C15_CompletesAfterAllSettled ==
  \A c \in Ctx :
    (op[c] = "getStats" /\ pc[c] \in {"resolved", "rejected"})
    => \A a \in Adapters : slot[c][a].st /= "pending"

\* The calls whose producer (si.fsSize, si.diskLayout) can reject; the
\* battery producer is getBatteryStatus, which catches.
RejectingProducers == {"fileSystemInfo", "diskLayout"}
ProducerRejected(c, a) ==
  a \in RejectingProducers /\ slot[c][a].src.out.kind = "throw"

\* C12: when the producer of a cachedCall rejects, the caller of cachedCall
\* gets the failure (its catch answers with the empty list), the cache table
\* is left as it was, and the next cachedCall for the key invokes the
\* producer again.
C12_ProducerFailureNotCached ==
  [][\A a \in RejectingProducers :
       /\ (slot[1][a].st = "pending" /\ ProducerRejected(1, a)')
          => /\ _cache' = _cache
             /\ slot'[1][a].st = "fulfilled"
             /\ slot'[1][a].val = <<>>
       /\ (/\ ProducerRejected(1, a)
           /\ callNo'[1] /= callNo[1]
           /\ slot'[1][a].st /= "none")
          => /\ slot'[1][a].src.from = "provider"
             /\ slot'[1][a].st = "pending"]_vars

\* C12 witness: a call found an expired entry, its producer rejected, and
\* the expired entry is still the one in the table.
C12_Witness ==
  \E a \in RejectingProducers :
    /\ ProducerRejected(1, a)
    /\ slot[1][a].src.seen.set
    /\ Age(a) >= TtlOf(a)
    /\ _cache[KeyOf(a)] = slot[1][a].src.seen

\* The last rate update could not read the counters, or read no interface.
SpeedFailed ==
  /\ slot[1]["networkSpeed"].st = "fulfilled"
  /\ \/ slot[1]["networkSpeed"].src.out.kind /= "ok"
     \/ slot[1]["networkSpeed"].src.out.data = <<>>

\* C14: an update whose counters source fails or reports no interface
\* returns 0/0 and leaves lastCounters and the ring buffer as they were; a
\* successful update takes its raw rate against the counters it finds.
C14_FailedUpdateChangesNothing ==
  /\ SpeedFailed =>
       /\ SpeedRet.downloadRaw = Zero
       /\ SpeedRet.uploadRaw = Zero
       /\ lastNetworkStats = SpeedSeen.last
       /\ networkSpeedHistory = SpeedSeen.h
  /\ (SpeedRead /\ SpeedSeen.last /= Null) =>
       LET s == networkSpeedHistory[Len(networkSpeedHistory)]
       IN /\ s.download = Max(0, SpeedRx - SpeedSeen.last.rx)
          /\ s.upload = Max(0, SpeedTx - SpeedSeen.last.tx)

\* C14 witness: a failed update that found counters and samples stored.
C14_Witness ==
  /\ SpeedFailed
  /\ slot[1]["networkSpeed"].src.out.kind \in {"fail", "throw"}
  /\ SpeedSeen.last /= Null
  /\ SpeedSeen.h /= <<>>
  /\ lastNetworkStats = SpeedSeen.last

\* A step in which the rate update of context c reads at least one interface.
SpeedReadStep(c) ==
  /\ slot[c]["networkSpeed"].st = "pending"
  /\ slot'[c]["networkSpeed"].st = "fulfilled"
  /\ slot'[c]["networkSpeed"].src.out.kind = "ok"
  /\ slot'[c]["networkSpeed"].src.out.data /= <<>>

\* C17: lastCounters, once set, is never absent again; every update that
\* reads at least one interface sets it to the totals read, also when a
\* counter went down; nothing else changes it.
C17_LastCountersFollowReads ==
  [][/\ lastNetworkStats /= Null => lastNetworkStats' /= Null
     /\ \A c \in Ctx : SpeedReadStep(c) =>
          lastNetworkStats' =
            [rx |-> TotalBytes(slot'[c]["networkSpeed"].src.out.data, "rxBytes"),
             tx |-> TotalBytes(slot'[c]["networkSpeed"].src.out.data, "txBytes")]
     /\ lastNetworkStats' /= lastNetworkStats => \E c \in Ctx : SpeedReadStep(c)]_vars

\* C17 witness: an update read lower counters than were stored and the
\* stored counters are now the lower ones.
C17_Witness ==
  /\ SpeedRead
  /\ SpeedSeen.last /= Null
  /\ SpeedRx < SpeedSeen.last.rx
  /\ lastNetworkStats = [rx |-> SpeedRx, tx |-> SpeedTx]
  /\ lastNetworkStats /= SpeedSeen.last

\* C18: the cpu, memory and network samples appended by one pass carry the
\* same timestamp.
C18_PassSamplesShareTimestamp ==
  \A c \in Ctx :
    (Returned(c) /\ slot[c]["networkStats"].src.out.kind = "ok") =>
      /\ memLog[Len(memLog)].timestamp = cpuLog[Len(cpuLog)].timestamp
      /\ netLog[Len(netLog)].timestamp = cpuLog[Len(cpuLog)].timestamp

\* Timestamps never go down from the head of a buffer to its tail.
Chronological(h) ==
  \A i \in 1..(Len(h) - 1) : h[i].timestamp <= h[i + 1].timestamp

\* C19: with passes overlapping in any way, each history buffer holds at
\* most 20 samples in non-decreasing timestamp order and the rate ring
\* buffer holds at most 5, in every state between two steps.
C19_BufferInvariantsUnderOverlap ==
  /\ Len(cpuHistory) <= historyLimit /\ Chronological(cpuHistory)
  /\ Len(memoryHistory) <= historyLimit /\ Chronological(memoryHistory)
  /\ Len(networkHistory) <= historyLimit /\ Chronological(networkHistory)
  /\ Len(networkSpeedHistory) <= speedHistoryLimit

\* C19 witness: two passes are in flight at once, the second started later
\* than the first, and the network buffer, full, has taken the samples of
\* both while the first has not yet completed.
C19_Witness ==
  /\ pc[1] = "awaiting" /\ pc[2] = "awaiting"
  /\ op[1] = "getStats" /\ op[2] = "getStats"
  /\ slot[1]["mem"].src.now < slot[2]["mem"].src.now
  /\ slot[1]["networkStats"].st = "fulfilled"
  /\ slot[2]["networkStats"].st = "fulfilled"
  /\ Len(networkHistory) = historyLimit
  /\ Len(netLog) = HistFill + 2
  /\ Len(networkSpeedHistory) = speedHistoryLimit

\* What the caller of a cached call gets from a producer that ended with o.
OwnResult(a, o) ==
  CASE a = "battery" -> getBatteryStatus(o)
    [] a = "fileSystemInfo" -> IF o.kind = "ok" THEN FileSystemInfoOf(o.data) ELSE <<>>
    [] a = "diskLayout" -> IF o.kind = "ok" THEN DiskLayoutOf(o.data) ELSE <<>>

\* C16: cachedCall does not share in-flight work: every invocation that
\* finds no fresh entry invokes the producer itself, also while another
\* invocation for the key is in flight, and gets the result of its own
\* producer invocation.
C16_NoInFlightDeduplication ==
  \A c \in Ctx, a \in CachedAdapters :
    LET s == slot[c][a] IN
    s.st /= "none" =>
      /\ ~(s.src.seen.set /\ s.src.now - s.src.seen.ts < TtlOf(a))
           => s.src.from = "provider"
      /\ (s.src.from = "provider" /\ s.st = "fulfilled")
           => s.val = OwnResult(a, s.src.out)
      /\ (s.src.from = "provider" /\ s.st = "pending") => s.src.out = NoOutcome

\* C16 witness: two invocations for one key each found no entry, each got
\* an answer from its own producer invocation, and the answers differ.
C16_Witness ==
  \E a \in CachedAdapters :
    /\ slot[1][a].st = "fulfilled" /\ slot[2][a].st = "fulfilled"
    /\ slot[1][a].src.from = "provider" /\ slot[2][a].src.from = "provider"
    /\ ~slot[1][a].src.seen.set /\ ~slot[2][a].src.seen.set
    /\ slot[1][a].src.out.kind = "ok" /\ slot[2][a].src.out.kind = "ok"
    /\ slot[1][a].src.out /= slot[2][a].src.out
    /\ slot[1][a].val /= slot[2][a].val

\* C20: the storedAt of a key's entry never decreases, however the
\* cachedCall invocations for the key interleave.
C20_StoredAtNeverDecreases ==
  [][\A key \in CacheKeys :
       _cache[key].set => _cache'[key].set /\ _cache'[key].ts >= _cache[key].ts]_vars

====
